---- MODULE Spec2Model ----
(***************************************************************************)
(* Model of cmd/compose/generate.go: the `generate` command that turns the *)
(* inspect records of existing containers into a compose project.          *)
(*                                                                         *)
(* Strings the code takes apart (container names, bind strings,            *)
(* environment entries, ports) are sequences of one-character strings.     *)
(* A Go nil slice / nil pointer is Nil, a non-nil value x is Some(x).      *)
(***************************************************************************)
EXTENDS Integers, Sequences, FiniteSets, TLC

VARIABLES
    \* ---- runGenerate ----
    args,          \* the inspect record the engine holds for each identifier
    opts,          \* generateOptions: ProjectName, WorkDir
    cwdOk,         \* whether os.Getwd succeeds
    pc,            \* position in runGenerate
    i,             \* loop index of `for i, arg := range args` (0-based)
    container,     \* the record returned by the last successful inspect
    services,      \* map[string]types.ServiceConfig
    assembled,     \* history: the service built for each container so far
    projectName,
    workingDir,
    yaml,          \* result of p.MarshalYAML(): Nil or Some(project)
    marshalErr,    \* whether p.MarshalYAML() returned an error
    ret,           \* Nil while running, Some(error) once returned
    stdout,        \* what fmt.Printf wrote
    stderr,        \* what was written to os.Stderr
    inspectCalls,  \* history: indices for which ContainerInspect was called
    cancelled,     \* whether ctx has been cancelled
    \* ---- a field mapper applied on its own ----
    mpc,           \* "input" before the call, "done" after
    mc,            \* the container record handed to the mapper
    mseed,         \* the positional index handed to getServiceName
    morder,        \* the order in which the mapper's map range visited the keys
    mres           \* the mapper's result

runVars == <<args, opts, cwdOk, pc, i, container, services, assembled,
             projectName, workingDir, yaml, marshalErr, ret, stdout, stderr,
             inspectCalls, cancelled>>
mapperVars == <<mpc, mc, mseed, morder, mres>>
vars == <<runVars, mapperVars>>

----------------------------------------------------------------------------
(* Bounds *)
MaxArgs == 2
MaxSeed == 11
MaxNameLen == 2
MaxHostBindings == 2
MaxBinds == 2
MaxFields == 4

----------------------------------------------------------------------------
(* Go values *)
Nil == <<>>
Some(x) == <<x>>
IsNil(o) == o = <<>>
\* len() of a slice that may be nil
SliceLen(o) == IF IsNil(o) THEN 0 ELSE Len(o[1])

Range(s) == {s[k] : k \in 1..Len(s)}

RECURSIVE SeqsUpTo(_, _)
\* all sequences over S of length at most n
SeqsUpTo(S, n) ==
    IF n = 0 THEN {<<>>}
    ELSE LET shorter == SeqsUpTo(S, n - 1)
         IN  shorter \cup {Append(s, x) : s \in {t \in shorter : Len(t) = n - 1}, x \in S}

\* all orders in which a `range` over a Go map may visit the keys S
Orders(S) == {o \in [1..Cardinality(S) -> S] : \A a, b \in 1..Cardinality(S) : a # b => o[a] # o[b]}

----------------------------------------------------------------------------
(* strings *)
Digits == <<"0", "1", "2", "3", "4", "5", "6", "7", "8", "9">>

RECURSIVE Itoa(_)
\* %d of a non-negative int
Itoa(n) == IF n < 10 THEN <<Digits[n + 1]>> ELSE Itoa(n \div 10) \o <<Digits[(n % 10) + 1]>>

HasPrefix(s, p) == Len(s) >= Len(p) /\ SubSeq(s, 1, Len(p)) = p

\* s[1:]
Tail1(s) == SubSeq(s, 2, Len(s))

ServicePrefix == <<"s", "e", "r", "v", "i", "c", "e", "-">>

\* fmt.Sprintf("service-%d", seed)
SprintfService(seed) == ServicePrefix \o Itoa(seed)

getServiceName(c, seed) ==
    IF c.Name # <<>>
    THEN IF HasPrefix(c.Name, <<"/">>) THEN Tail1(c.Name) ELSE c.Name
    ELSE SprintfService(seed)

----------------------------------------------------------------------------
(* strings.Split / strings.SplitN *)
\* index of the first occurrence of character ch in s, 0 when there is none
IndexOf(s, ch) ==
    IF \E k \in 1..Len(s) : s[k] = ch
    THEN CHOOSE k \in 1..Len(s) : s[k] = ch /\ \A j \in 1..(k - 1) : s[j] # ch
    ELSE 0

RECURSIVE Split(_, _)
\* strings.Split(s, sep) for a one-character sep
Split(s, sep) ==
    LET k == IndexOf(s, sep)
    IN  IF k = 0 THEN <<s>>
        ELSE <<SubSeq(s, 1, k - 1)>> \o Split(SubSeq(s, k + 1, Len(s)), sep)

\* strings.SplitN(s, sep, 2)
SplitN2(s, sep) ==
    LET k == IndexOf(s, sep)
    IN  IF k = 0 THEN <<s>>
        ELSE <<SubSeq(s, 1, k - 1), SubSeq(s, k + 1, Len(s))>>

DigitValue(ch) == CHOOSE d \in 0..9 : Digits[d + 1] = ch
IsDigit(ch) == \E d \in 0..9 : Digits[d + 1] = ch

RECURSIVE ParseUint(_)
\* the value of a string of decimal digits
ParseUint(s) ==
    IF Len(s) = 0 THEN 0
    ELSE 10 * ParseUint(SubSeq(s, 1, Len(s) - 1)) + DigitValue(s[Len(s)])

----------------------------------------------------------------------------
(* nat.Port: "<port>/<proto>" *)
\* nat.Port.Port(): the part before the first "/"
PortOf(p) ==
    LET parts == SplitN2(p, "/")
    IN  IF Len(p) = 0 \/ Len(parts[1]) = 0 THEN <<>> ELSE parts[1]

\* nat.Port.Int(): the port as a number, 0 when it does not parse
PortInt(p) ==
    LET b == PortOf(p)
    IN  IF Len(b) > 0 /\ (\A k \in 1..Len(b) : IsDigit(b[k])) /\ ParseUint(b) < 65536
        THEN ParseUint(b) ELSE 0

\* body of `for port, bindings := range c.HostConfig.PortBindings` when the
\* published mark is set for every key, bound or not
PortStepMarkAlways(acc, port, bindings) ==
    [ports |-> acc.ports \o
                 [k \in 1..Len(bindings) |->
                    [HostIP |-> bindings[k].HostIP,
                     Published |-> bindings[k].HostPort,
                     Target |-> PortInt(port)]],
     portsBinding |-> acc.portsBinding \cup {PortOf(port)}]

\* body of `for port, bindings := range c.HostConfig.PortBindings` when only
\* the first binding of a port is emitted
PortStepFirstBinding(acc, port, bindings) ==
    [ports |-> acc.ports \o
                 [k \in 1..(IF Len(bindings) > 0 THEN 1 ELSE 0) |->
                    [HostIP |-> bindings[k].HostIP,
                     Published |-> bindings[k].HostPort,
                     Target |-> PortInt(port)]],
     portsBinding |-> IF Len(bindings) > 0
                      THEN acc.portsBinding \cup {PortOf(port)}
                      ELSE acc.portsBinding]

\* body of `for port, bindings := range c.HostConfig.PortBindings`:
\* one entry per binding; the bare port is marked only inside the inner loop
PortStep(acc, port, bindings) ==
    [ports |-> acc.ports \o
                 [k \in 1..Len(bindings) |->
                    [HostIP |-> bindings[k].HostIP,
                     Published |-> bindings[k].HostPort,
                     Target |-> PortInt(port)]],
     portsBinding |-> IF Len(bindings) > 0
                      THEN acc.portsBinding \cup {PortOf(port)}
                      ELSE acc.portsBinding]

RECURSIVE PortLoop(_, _, _)
\* the first loop, visiting the keys in the given order
PortLoop(acc, table, order) ==
    IF Len(order) = 0 THEN acc
    ELSE PortLoop(PortStep(acc, order[1], table[order[1]]), table, Tail(order))

RECURSIVE ExposeLoop(_, _, _)
\* the second loop: exposed ports whose bare port is not a key of portsBinding
ExposeLoop(acc, portsBinding, order) ==
    IF Len(order) = 0 THEN acc
    ELSE ExposeLoop(IF PortOf(order[1]) \notin portsBinding
                    THEN Append(acc, PortOf(order[1]))
                    ELSE acc,
                    portsBinding, Tail(order))

\* bindOrder, exposeOrder: the orders in which the two map ranges visit the keys
getServiceBindingsPorts(c, bindOrder, exposeOrder) ==
    LET first == PortLoop([ports |-> <<>>, portsBinding |-> {}],
                          c.HostConfig.PortBindings, bindOrder)
    IN  [ports |-> first.ports,
         expose |-> ExposeLoop(<<>>, first.portsBinding, exposeOrder)]

----------------------------------------------------------------------------
(* environment, entrypoint, command, image *)
RECURSIVE NewMappingWithEquals(_)
\* types.NewMappingWithEquals: KEY=VALUE -> Some(VALUE), KEY -> Nil, last wins
NewMappingWithEquals(values) ==
    IF Len(values) = 0 THEN <<>>
    ELSE LET rest == NewMappingWithEquals(SubSeq(values, 1, Len(values) - 1))
             env == values[Len(values)]
             tokens == SplitN2(env, "=")
             key == tokens[1]
             val == IF Len(tokens) > 1 THEN Some(tokens[2]) ELSE Nil
         IN  IF \E k \in 1..Len(rest) : rest[k].key = key
             THEN [k \in 1..Len(rest) |->
                     IF rest[k].key = key THEN [key |-> key, val |-> val] ELSE rest[k]]
             ELSE Append(rest, [key |-> key, val |-> val])

getServiceEnv(c) == NewMappingWithEquals(c.Config.Env)

getServiceEntrypoint(c) == c.Config.Entrypoint

getServiceCmd(c) == c.Config.Cmd

getServiceImage(c) == c.Config.Image

----------------------------------------------------------------------------
(* mounts *)
\* body of `for _, bString := range c.HostConfig.Binds` when the bind does
\* not start out read-only
BindStepDefaultReadWrite(acc, bString) ==
    LET options == Split(bString, ":")
    IN  IF Len(options) < 2
        THEN [acc EXCEPT !.printed = Append(@, [msg |-> "unable to process bind mount",
                                                  arg |-> bString])]
        ELSE [acc EXCEPT !.mounts = Append(@,
                 [Type |-> "bind", Source |-> options[1], Target |-> options[2],
                  ReadOnly |-> FALSE,
                  Consistency |-> "", Bind |-> Nil, Volume |-> Nil, Tmpfs |-> Nil])]

\* body of `for _, bString := range c.HostConfig.Binds`
BindStep(acc, bString) ==
    LET options == Split(bString, ":")
    IN  IF Len(options) < 2
        THEN [acc EXCEPT !.printed = Append(@, [msg |-> "unable to process bind mount",
                                                  arg |-> bString])]
        ELSE [acc EXCEPT !.mounts = Append(@,
                 [Type |-> "bind", Source |-> options[1], Target |-> options[2],
                  ReadOnly |-> ~(Len(options) = 3 /\ options[3] = <<"r", "w">>),
                  Consistency |-> "", Bind |-> Nil, Volume |-> Nil, Tmpfs |-> Nil])]

\* body of `for _, m := range c.HostConfig.Mounts`
MountStep(acc, m) ==
    [acc EXCEPT !.mounts = Append(@,
        [Type |-> m.Type, Source |-> m.Source, Target |-> m.Target,
         ReadOnly |-> m.ReadOnly, Consistency |-> m.Consistency,
         Bind |-> IF IsNil(m.BindOptions) THEN Nil
                  ELSE Some([Propagation |-> m.BindOptions[1].Propagation,
                             CreateHostPath |-> m.BindOptions[1].CreateMountpoint]),
         Volume |-> IF IsNil(m.VolumeOptions) THEN Nil
                    ELSE Some([NoCopy |-> m.VolumeOptions[1].NoCopy,
                               Subpath |-> m.VolumeOptions[1].Subpath]),
         Tmpfs |-> IF IsNil(m.TmpfsOptions) THEN Nil
                   ELSE Some([Size |-> m.TmpfsOptions[1].SizeBytes,
                              Mode |-> m.TmpfsOptions[1].Mode])])]

RECURSIVE BindLoop(_, _)
BindLoop(acc, binds) ==
    IF Len(binds) = 0 THEN acc ELSE BindLoop(BindStep(acc, binds[1]), Tail(binds))

RECURSIVE MountLoop(_, _)
MountLoop(acc, ms) ==
    IF Len(ms) = 0 THEN acc ELSE MountLoop(MountStep(acc, ms[1]), Tail(ms))

\* the mounts returned, and the warnings printed on the way
getServiceMounts(c) ==
    LET start == [mounts |-> <<>>, printed |-> <<>>]
        done == MountLoop(BindLoop(start, c.HostConfig.Binds), c.HostConfig.Mounts)
    IN  [mounts |-> done.mounts, printed |-> done.printed]

----------------------------------------------------------------------------
(* inspect records *)
EmptyTable == [k \in {} |-> <<>>]

DefaultContainer ==
    [Name |-> <<>>,
     Config |-> [Image |-> "img", Env |-> <<>>, Entrypoint |-> Nil, Cmd |-> Nil,
                 ExposedPorts |-> {}],
     HostConfig |-> [PortBindings |-> EmptyTable, Binds |-> <<>>, Mounts |-> <<>>]]

P80tcp == <<"8", "0", "/", "t", "c", "p">>
P80udp == <<"8", "0", "/", "u", "d", "p">>
P443tcp == <<"4", "4", "3", "/", "t", "c", "p">>
PortKeys == {P80tcp, P80udp, P443tcp}

HostBindings == {[HostIP |-> "0.0.0.0", HostPort |-> "8080"],
                 [HostIP |-> "::", HostPort |-> "8080"]}

\* every port-binding table over PortKeys with at most MaxHostBindings per port
PortTables ==
    UNION {[D -> SeqsUpTo(HostBindings, MaxHostBindings)] : D \in SUBSET PortKeys}

RECURSIVE Join(_, _)
\* the fields joined by sep
Join(fields, sep) ==
    IF Len(fields) = 1 THEN fields[1]
    ELSE fields[1] \o <<sep>> \o Join(Tail(fields), sep)

FieldValues == {<<"r", "w">>, <<"r">>}

\* "", and every string of 1..MaxFields colon-separated fields
BindStrings ==
    {<<>>} \cup {Join(f, ":") : f \in SeqsUpTo(FieldValues, MaxFields) \ {<<>>}}

VolumeMount ==
    [Type |-> "volume", Source |-> <<"v">>, Target |-> <<"/", "d">>, ReadOnly |-> FALSE,
     Consistency |-> "", BindOptions |-> Nil,
     VolumeOptions |-> Some([NoCopy |-> TRUE, Subpath |-> "sub"]), TmpfsOptions |-> Nil]

TmpfsMount ==
    [Type |-> "tmpfs", Source |-> <<>>, Target |-> <<"/", "t">>, ReadOnly |-> FALSE,
     Consistency |-> "", BindOptions |-> Nil, VolumeOptions |-> Nil,
     TmpfsOptions |-> Some([SizeBytes |-> 1024, Mode |-> 511])]

BindMount ==
    [Type |-> "bind", Source |-> <<"/", "h">>, Target |-> <<"/", "c">>, ReadOnly |-> TRUE,
     Consistency |-> "cached",
     BindOptions |-> Some([Propagation |-> "rprivate", CreateMountpoint |-> TRUE]),
     VolumeOptions |-> Nil, TmpfsOptions |-> Nil]

MountLists == {<<>>, <<VolumeMount, TmpfsMount, BindMount>>}

\* names an engine may report: short strings over "/" and "w", and names that
\* look like the synthetic ones
NameInputs ==
    SeqsUpTo({"/", "w"}, MaxNameLen)
        \cup {<<"/">> \o SprintfService(k) : k \in 0..MaxSeed}

----------------------------------------------------------------------------
(* runGenerate *)
ErrNotFound == "No such container"
ErrCanceled == "context canceled"
NilError == "<nil>"

getName(o) == IF o.ProjectName # "" THEN o.ProjectName ELSE ""

\* the directory, and what is printed when os.Getwd fails
getWorkingDir(o, getwdOk) ==
    IF o.WorkDir # "" THEN [dir |-> o.WorkDir, printed |-> <<>>]
    ELSE IF ~getwdOk
    THEN [dir |-> "",
          printed |-> <<[msg |-> "warning: unable to get working directory", arg |-> "err"]>>]
    ELSE [dir |-> "/cwd", printed |-> <<>>]

\* lines 73-95 with the command assigned whatever its length
AssembleAlwaysCmd(c, seed, bindOrder, exposeOrder) ==
    LET pe == getServiceBindingsPorts(c, bindOrder, exposeOrder)
    IN  [Name |-> getServiceName(c, seed),
         Image |-> getServiceImage(c),
         Environment |-> getServiceEnv(c),
         Expose |-> pe.expose,
         Entrypoint |-> getServiceEntrypoint(c),
         Ports |-> pe.ports,
         Volumes |-> getServiceMounts(c).mounts,
         Command |-> getServiceCmd(c)]

\* lines 73-95: the service built for container c at index seed
Assemble(c, seed, bindOrder, exposeOrder) ==
    LET pe == getServiceBindingsPorts(c, bindOrder, exposeOrder)
        cmd == getServiceCmd(c)
    IN  [Name |-> getServiceName(c, seed),
         Image |-> getServiceImage(c),
         Environment |-> getServiceEnv(c),
         Expose |-> pe.expose,
         Entrypoint |-> getServiceEntrypoint(c),
         Ports |-> pe.ports,
         Volumes |-> getServiceMounts(c).mounts,
         Command |-> IF SliceLen(cmd) > 0 THEN cmd ELSE Nil]

\* an insertion that keeps an entry already stored under the name
InsertKeepFirst(svcs, name, service) ==
    [n \in DOMAIN svcs \cup {name} |-> IF n \in DOMAIN svcs THEN svcs[n] ELSE service]

\* services[name] = service
Insert(svcs, name, service) ==
    [n \in DOMAIN svcs \cup {name} |-> IF n = name THEN service ELSE svcs[n]]

\* lines 58-62
Start ==
    /\ pc = "start"
    /\ stderr' = Append(stderr, "generate command is EXPERIMENTAL")
    /\ projectName' = getName(opts)
    /\ workingDir' = getWorkingDir(opts, cwdOk).dir
    /\ stdout' = stdout \o getWorkingDir(opts, cwdOk).printed
    /\ services' = EmptyTable
    /\ pc' = "loop"
    /\ UNCHANGED <<args, opts, cwdOk, i, container, assembled, yaml, marshalErr, ret,
                   inspectCalls, cancelled, mapperVars>>

\* lines 67-72 when an inspect failure skips the container instead of returning
InspectSkipOnError ==
    /\ pc = "loop"
    /\ i < Len(args)
    /\ inspectCalls' = Append(inspectCalls, i)
    /\ \/ /\ ~cancelled
          /\ container' = Some(args[i + 1])
          /\ pc' = "map"
          /\ UNCHANGED <<stdout, ret, i>>
       \/ /\ \E err \in IF cancelled THEN {ErrCanceled} ELSE {ErrNotFound} :
                stdout' = Append(stdout, [msg |-> "failed to inspect container", arg |-> err])
          /\ i' = i + 1
          /\ UNCHANGED <<container, pc, ret>>
    /\ UNCHANGED <<args, opts, cwdOk, services, assembled, projectName, workingDir, yaml,
                   marshalErr, stderr, cancelled, mapperVars>>

\* lines 67-72: the inspect call for args[i]; the client fails a call made
\* with a cancelled context, and the engine may fail any call
Inspect ==
    /\ pc = "loop"
    /\ i < Len(args)
    /\ inspectCalls' = Append(inspectCalls, i)
    /\ \/ /\ ~cancelled
          /\ container' = Some(args[i + 1])
          /\ pc' = "map"
          /\ UNCHANGED <<stdout, ret>>
       \/ /\ \E err \in IF cancelled THEN {ErrCanceled} ELSE {ErrNotFound} :
                /\ stdout' = Append(stdout, [msg |-> "failed to inspect container", arg |-> err])
                /\ ret' = Some(err)
          /\ pc' = "done"
          /\ UNCHANGED container
    /\ UNCHANGED <<args, opts, cwdOk, i, services, assembled, projectName, workingDir, yaml,
                   marshalErr, stderr, cancelled, mapperVars>>

\* lines 73-97 when a cancelled context makes the mapping stop
MapContainerUnlessCancelled ==
    /\ pc = "map"
    /\ IF cancelled
       THEN /\ ret' = Some(ErrCanceled)
            /\ pc' = "done"
            /\ UNCHANGED <<services, assembled, stdout, i>>
       ELSE /\ \E bo \in Orders(DOMAIN container[1].HostConfig.PortBindings),
                  eo \in Orders(container[1].Config.ExposedPorts) :
                  LET service == Assemble(container[1], i, bo, eo)
                  IN  /\ services' = Insert(services, service.Name, service)
                      /\ assembled' = Append(assembled, service)
            /\ stdout' = stdout \o getServiceMounts(container[1]).printed
            /\ i' = i + 1
            /\ pc' = "loop"
            /\ UNCHANGED ret
    /\ UNCHANGED <<args, opts, cwdOk, container, projectName, workingDir, yaml, marshalErr,
                   stderr, inspectCalls, cancelled, mapperVars>>

\* lines 73-97: map the retrieved record, insert the service, next iteration
MapContainer ==
    /\ pc = "map"
    /\ \E bo \in Orders(DOMAIN container[1].HostConfig.PortBindings),
          eo \in Orders(container[1].Config.ExposedPorts) :
          LET service == Assemble(container[1], i, bo, eo)
          IN  /\ services' = Insert(services, service.Name, service)
              /\ assembled' = Append(assembled, service)
    /\ stdout' = stdout \o getServiceMounts(container[1]).printed
    /\ i' = i + 1
    /\ pc' = "loop"
    /\ UNCHANGED <<args, opts, cwdOk, container, projectName, workingDir, yaml, marshalErr,
                   ret, stderr, inspectCalls, cancelled, mapperVars>>

\* lines 104-113 when a serialization error is returned to the caller
MarshalReturnErr ==
    /\ pc = "loop"
    /\ i = Len(args)
    /\ LET p == [Name |-> projectName, WorkingDir |-> workingDir, Services |-> services]
       IN  \/ /\ yaml' = Some(p)
              /\ marshalErr' = FALSE
              /\ pc' = "print"
              /\ UNCHANGED <<stdout, ret>>
           \/ /\ yaml' = Nil
              /\ marshalErr' = TRUE
              /\ stdout' = Append(stdout, [msg |-> "oops bad", arg |-> "err"])
              /\ ret' = Some("marshal error")
              /\ pc' = "done"
    /\ UNCHANGED <<args, opts, cwdOk, i, container, services, assembled, projectName,
                   workingDir, stderr, inspectCalls, cancelled, mapperVars>>

\* lines 104-113: build the project and serialize it; an error is only printed
Marshal ==
    /\ pc = "loop"
    /\ i = Len(args)
    /\ LET p == [Name |-> projectName, WorkingDir |-> workingDir, Services |-> services]
       IN  \/ /\ yaml' = Some(p)
              /\ marshalErr' = FALSE
              /\ UNCHANGED stdout
           \/ /\ yaml' = Nil
              /\ marshalErr' = TRUE
              /\ stdout' = Append(stdout, [msg |-> "oops bad", arg |-> "err"])
    /\ pc' = "print"
    /\ UNCHANGED <<args, opts, cwdOk, i, container, services, assembled, projectName,
                   workingDir, ret, stderr, inspectCalls, cancelled, mapperVars>>

\* lines 114-116: print the document (empty after a failed serialization)
PrintYaml ==
    /\ pc = "print"
    /\ stdout' = Append(stdout, [msg |-> "document", arg |-> yaml])
    /\ ret' = Some(NilError)
    /\ pc' = "done"
    /\ UNCHANGED <<args, opts, cwdOk, i, container, services, assembled, projectName,
                   workingDir, yaml, marshalErr, stderr, inspectCalls, cancelled, mapperVars>>

\* the caller's context is cancelled while runGenerate is running
Cancel ==
    /\ pc \in {"start", "loop", "map", "print"}
    /\ ~cancelled
    /\ cancelled' = TRUE
    /\ UNCHANGED <<args, opts, cwdOk, pc, i, container, services, assembled, projectName,
                   workingDir, yaml, marshalErr, ret, stdout, stderr, inspectCalls,
                   mapperVars>>

----------------------------------------------------------------------------
(* the inputs of a run *)
RunNames == {<<>>, <<"/", "w">>, <<"/">> \o SprintfService(1)}

BareOf(n, cmd) == [DefaultContainer EXCEPT !.Name = n, !.Config.Cmd = cmd]

FullOf(n, cmd) ==
    [Name |-> n,
     Config |-> [Image |-> "nginx:1",
                 Env |-> <<<<"K", "=", "v">>, <<"K">>, <<"E", "=">>>>,
                 Entrypoint |-> Some(<<"e">>),
                 Cmd |-> cmd,
                 ExposedPorts |-> {P80tcp, P443tcp}],
     HostConfig |-> [PortBindings |-> (P80tcp :> <<[HostIP |-> "0.0.0.0", HostPort |-> "8080"]>>)
                                         @@ (P80udp :> <<>>),
                     Binds |-> <<<<"r">>, <<"r", ":", "r", ":", "r", "w">>>>,
                     Mounts |-> <<VolumeMount>>]]

RunContainers ==
    {BareOf(n, Nil) : n \in RunNames}
        \cup {FullOf(n, Some(<<>>)) : n \in RunNames}
        \cup {BareOf(n, Some(<<"sh", "-c">>)) : n \in RunNames}

RunOpts == {[ProjectName |-> "", WorkDir |-> ""], [ProjectName |-> "p", WorkDir |-> "/w"]}

RunIdle ==
    /\ args = <<>>
    /\ opts = [ProjectName |-> "", WorkDir |-> ""]
    /\ cwdOk = TRUE
    /\ pc = "idle"
    /\ i = 0
    /\ container = Nil
    /\ services = EmptyTable
    /\ assembled = <<>>
    /\ projectName = ""
    /\ workingDir = ""
    /\ yaml = Nil
    /\ marshalErr = FALSE
    /\ ret = Nil
    /\ stdout = <<>>
    /\ stderr = <<>>
    /\ inspectCalls = <<>>
    /\ cancelled = FALSE

MapperIdle ==
    /\ mpc = "idle"
    /\ mc = DefaultContainer
    /\ mseed = 0
    /\ morder = <<>>
    /\ mres = Nil

\* a run over 1..MaxArgs identifiers (cobra.MinimumNArgs(1))
Init ==
    /\ args \in SeqsUpTo(RunContainers, MaxArgs) \ {<<>>}
    /\ opts \in RunOpts
    /\ cwdOk \in BOOLEAN
    /\ pc = "start"
    /\ i = 0
    /\ container = Nil
    /\ services = EmptyTable
    /\ assembled = <<>>
    /\ projectName = ""
    /\ workingDir = ""
    /\ yaml = Nil
    /\ marshalErr = FALSE
    /\ ret = Nil
    /\ stdout = <<>>
    /\ stderr = <<>>
    /\ inspectCalls = <<>>
    /\ cancelled = FALSE
    /\ MapperIdle

Next == Start \/ Inspect \/ MapContainer \/ Marshal \/ PrintYaml \/ Cancel

Spec == Init /\ [][Next]_vars

----------------------------------------------------------------------------
(* getServiceName applied to one name and index *)
InitName ==
    /\ RunIdle
    /\ mpc = "input"
    /\ mc \in {[DefaultContainer EXCEPT !.Name = n] : n \in NameInputs}
    /\ mseed \in 0..MaxSeed
    /\ morder = <<>>
    /\ mres = Nil

ApplyName ==
    /\ mpc = "input"
    /\ mres' = Some(getServiceName(mc, mseed))
    /\ mpc' = "done"
    /\ UNCHANGED <<mc, mseed, morder, runVars>>

NextName == ApplyName

SpecName == InitName /\ [][NextName]_vars

(* getServiceBindingsPorts applied to one port-binding table and exposed set *)
InitPorts ==
    /\ RunIdle
    /\ mpc = "input"
    /\ mc \in {[DefaultContainer EXCEPT !.HostConfig.PortBindings = t,
                                        !.Config.ExposedPorts = e] :
                 t \in PortTables, e \in SUBSET PortKeys}
    /\ mseed = 0
    /\ morder = <<>>
    /\ mres = Nil

ApplyPorts ==
    /\ mpc = "input"
    /\ \E bo \in Orders(DOMAIN mc.HostConfig.PortBindings),
          eo \in Orders(mc.Config.ExposedPorts) :
          /\ mres' = Some(getServiceBindingsPorts(mc, bo, eo))
          /\ morder' = bo
    /\ mpc' = "done"
    /\ UNCHANGED <<mc, mseed, runVars>>

NextPorts == ApplyPorts

SpecPorts == InitPorts /\ [][NextPorts]_vars

(* getServiceMounts applied to one list of bind strings and mounts *)
InitMounts ==
    /\ RunIdle
    /\ mpc = "input"
    /\ mc \in {[DefaultContainer EXCEPT !.HostConfig.Binds = b, !.HostConfig.Mounts = m] :
                 b \in SeqsUpTo(BindStrings, MaxBinds), m \in MountLists}
    /\ mseed = 0
    /\ morder = <<>>
    /\ mres = Nil

ApplyMounts ==
    /\ mpc = "input"
    /\ mres' = Some(getServiceMounts(mc))
    /\ mpc' = "done"
    /\ UNCHANGED <<mc, mseed, morder, runVars>>

NextMounts == ApplyMounts

SpecMounts == InitMounts /\ [][NextMounts]_vars

----------------------------------------------------------------------------
(* Properties *)
RunSucceeded == pc = "done" /\ ret = Some(NilError)

\* the name runGenerate derives for the j-th identifier (1-based)
DerivedName(j) == getServiceName(args[j], j - 1)

DerivedNames == {DerivedName(j) : j \in 1..Len(args)}

\* the containers that report a name get pairwise distinct service names
EngineNamesDistinct ==
    \A j, k \in 1..Len(args) :
        (j # k /\ args[j].Name # <<>> /\ args[k].Name # <<>>) => DerivedName(j) # DerivedName(k)

\* C1: after a run whose inspect calls all succeed, the service mapping has
\* one entry per input container: a synthesized service-<index> name never
\* collides with the engine-supplied name of an earlier container (stated for
\* inputs whose engine-supplied names are themselves distinct).
C1_OneEntryPerContainer ==
    (RunSucceeded /\ EngineNamesDistinct) =>
        /\ Cardinality(DOMAIN services) = Len(args)
        /\ \A j, k \in 1..Len(args) :
              (j < k /\ args[k].Name = <<>>) => DerivedName(j) # DerivedName(k)

\* the number of entries emitted before the k-th key visited is reached
RECURSIVE EmittedBefore(_, _, _)
EmittedBefore(table, order, k) ==
    IF k <= 1 THEN 0
    ELSE EmittedBefore(table, order, k - 1) + Len(table[order[k - 1]])

\* C2: once getServiceBindingsPorts has run, a port with at least one host
\* binding is not in the exposed output, and the published entries emitted
\* while that port was visited are one per host binding of it, in order,
\* each with that binding's host IP and host port and the port's number.
C2_PublishedNotExposedAndCounted ==
    mpc = "done" =>
        LET table == mc.HostConfig.PortBindings
            out == mres[1].ports
        IN  /\ Len(out) = EmittedBefore(table, morder, Len(morder) + 1)
            /\ \A k \in 1..Len(morder) :
                  LET p == morder[k]
                      first == EmittedBefore(table, morder, k)
                  IN  Len(table[p]) > 0 =>
                        /\ PortOf(p) \notin Range(mres[1].expose)
                        /\ \A j \in 1..Len(table[p]) :
                              /\ out[first + j].HostIP = table[p][j].HostIP
                              /\ out[first + j].Published = table[p][j].HostPort
                              /\ out[first + j].Target = PortInt(p)

C2_Witness ==
    /\ mpc = "done"
    /\ P80tcp \in DOMAIN mc.HostConfig.PortBindings
    /\ Len(mc.HostConfig.PortBindings[P80tcp]) = 2
    /\ P80tcp \in mc.Config.ExposedPorts
    /\ P443tcp \in mc.Config.ExposedPorts
    /\ Len(mres[1].ports) = 2
    /\ mres[1].expose = <<<<"4", "4", "3">>>>

\* the name with one leading "/" removed, when there is one
StripOne(name) == IF Len(name) > 0 /\ name[1] = "/" THEN Tail1(name) ELSE name

\* C3: getServiceName returns the name with exactly one leading "/" removed,
\* and service-<index> when that leaves nothing or there is no name, so never
\* the empty string.
C3_StripOrSynthesize ==
    mpc = "done" =>
        /\ mres[1] = IF StripOne(mc.Name) = <<>> THEN SprintfService(mseed)
                     ELSE StripOne(mc.Name)
        /\ mres[1] # <<>>

\* C4: every assembled service has its command field set exactly when the
\* container's command list is non-empty, and then it is that list.
C4_CommandIffNonEmpty ==
    \A j \in 1..Len(assembled) :
        /\ ~IsNil(assembled[j].Command) <=> SliceLen(args[j].Config.Cmd) > 0
        /\ ~IsNil(assembled[j].Command) => assembled[j].Command[1] = args[j].Config.Cmd[1]

C4_Witness ==
    /\ Len(assembled) = 2
    /\ args[1].Config.Cmd = Some(<<>>) /\ IsNil(assembled[1].Command)
    /\ args[2].Config.Cmd = Some(<<"sh", "-c">>) /\ assembled[2].Command = Some(<<"sh", "-c">>)

FieldsOf(b) == Split(b, ":")
WellFormed(b) == Len(FieldsOf(b)) >= 2
Malformed(b) == Len(FieldsOf(b)) < 2

\* C5: each bind string is handled on its own: one with fewer than 2 fields
\* only adds a warning, every other one adds one mount, in order; 2 fields
\* give a read-only bind of field 1 onto field 2, 3 fields are read-write
\* exactly when the third is "rw".
C5_BindsHandledIndependently ==
    mpc = "done" =>
        LET binds == mc.HostConfig.Binds
            good == SelectSeq(binds, WellFormed)
            bad == SelectSeq(binds, Malformed)
            out == mres[1].mounts
        IN  /\ Len(out) = Len(good) + Len(mc.HostConfig.Mounts)
            /\ Len(mres[1].printed) = Len(bad)
            /\ \A k \in 1..Len(bad) : mres[1].printed[k].arg = bad[k]
            /\ \A k \in 1..Len(good) :
                  LET f == FieldsOf(good[k])
                  IN  /\ Len(f) = 2 =>
                            /\ out[k].Type = "bind"
                            /\ out[k].Source = f[1]
                            /\ out[k].Target = f[2]
                            /\ out[k].ReadOnly = TRUE
                      /\ Len(f) = 3 => (out[k].ReadOnly = FALSE <=> f[3] = <<"r", "w">>)

C5_Witness ==
    /\ mpc = "done"
    /\ mc.HostConfig.Binds = <<<<"r">>, <<"r", ":", "r", ":", "r", "w">>>>
    /\ Len(mres[1].printed) = 1
    /\ mres[1].mounts[1].ReadOnly = FALSE

InspectFailedAt(k) == stdout[k].msg = "failed to inspect container"
InspectFailed == \E k \in 1..Len(stdout) : InspectFailedAt(k)
DocumentPrinted == \E k \in 1..Len(stdout) : stdout[k].msg = "document"

\* C6: when an inspect call fails the run is over: that error is what
\* runGenerate returned, the failed call is the last one issued, and nothing
\* was serialized or printed as a document.
C6_InspectFailureAborts ==
    InspectFailed =>
        /\ pc = "done"
        /\ InspectFailedAt(Len(stdout))
        /\ ret = Some(stdout[Len(stdout)].arg)
        /\ ret # Some(NilError)
        /\ inspectCalls = [k \in 1..(i + 1) |-> k - 1]
        /\ ~DocumentPrinted
        /\ yaml = Nil

C6_Witness ==
    /\ InspectFailed
    /\ pc = "done"
    /\ Len(inspectCalls) = 2
    /\ Len(args) = 2
    /\ DOMAIN services # {}

OopsPrinted == \E k \in 1..Len(stdout) : stdout[k].msg = "oops bad"

\* C7: a failed serialization is only reported by a diagnostic: once it
\* has failed the diagnostic has been printed, and the run is either about to
\* take its output step or has printed the (empty) document and returned
\* without an error.
C7_MarshalFailureStillCompletes ==
    marshalErr =>
        /\ OopsPrinted
        /\ \/ pc = "print" /\ ret = Nil /\ ENABLED PrintYaml
           \/ pc = "done" /\ DocumentPrinted /\ ret = Some(NilError)

C7_Witness ==
    /\ marshalErr
    /\ pc = "done"
    /\ OopsPrinted
    /\ stdout[Len(stdout)] = [msg |-> "document", arg |-> Nil]
    /\ DOMAIN services # {}

LastWithName(n) ==
    CHOOSE j \in 1..Len(args) :
        /\ DerivedName(j) = n
        /\ \A k \in 1..Len(args) : DerivedName(k) = n => k <= j

\* C9: containers are inspected one at a time in input order, and after a
\* successful run each name maps to the service built from the last container
\* with that name, one entry per distinct derived name.
C9_LastWriteWins ==
    RunSucceeded =>
        /\ inspectCalls = [k \in 1..Len(args) |-> k - 1]
        /\ Len(assembled) = Len(args)
        /\ DOMAIN services = DerivedNames
        /\ Cardinality(DOMAIN services) = Cardinality(DerivedNames)
        /\ \A n \in DOMAIN services :
              /\ services[n] = assembled[LastWithName(n)]
              /\ services[n].Image = args[LastWithName(n)].Config.Image
              /\ services[n].Entrypoint = args[LastWithName(n)].Config.Entrypoint

C9_Witness ==
    /\ RunSucceeded
    /\ Len(args) = 2
    /\ DerivedName(1) = DerivedName(2)
    /\ args[1].Config.Image # args[2].Config.Image
    /\ Cardinality(DOMAIN services) = 1

\* the bare ports that have a host binding
Published(c) ==
    {PortOf(p) : p \in {q \in DOMAIN c.HostConfig.PortBindings :
                            Len(c.HostConfig.PortBindings[q]) > 0}}

RECURSIVE TotalBindings(_, _)
\* the number of host bindings of the keys in S
TotalBindings(table, S) ==
    IF S = {} THEN 0
    ELSE LET p == CHOOSE q \in S : TRUE
         IN  Len(table[p]) + TotalBindings(table, S \ {p})

\* C10: the exposed output holds, once each, the bare port of every exposed
\* entry whose bare port has no host binding, and nothing else; a port with an
\* empty binding list adds no published entry and suppresses nothing; with no
\* bindings and no exposed ports both lists are empty.
C10_ExposedExactlyUnpublished ==
    mpc = "done" =>
        LET table == mc.HostConfig.PortBindings
            exposed == mc.Config.ExposedPorts
            kept == {e \in exposed : PortOf(e) \notin Published(mc)}
        IN  /\ Len(mres[1].expose) = Cardinality(kept)
            /\ \A e \in kept :
                  Cardinality({k \in 1..Len(mres[1].expose) : mres[1].expose[k] = PortOf(e)})
                    = Cardinality({x \in kept : PortOf(x) = PortOf(e)})
            /\ Len(mres[1].ports) = TotalBindings(table, DOMAIN table)
            /\ (table = EmptyTable /\ exposed = {}) =>
                  (mres[1].ports = <<>> /\ mres[1].expose = <<>>)

C10_Witness ==
    /\ mpc = "done"
    /\ DOMAIN mc.HostConfig.PortBindings = {P80tcp}
    /\ mc.HostConfig.PortBindings[P80tcp] = <<>>
    /\ mc.Config.ExposedPorts = {P80tcp, P443tcp}
    /\ mres[1].ports = <<>>
    /\ Len(mres[1].expose) = 2

====
